---- MODULE Spec2Model ----
(***************************************************************************)
(* Model of operon_analyzer: the Feature/Operon data model (genes.py), the *)
(* evaluation pipeline, the feature-order clustering and the exact and     *)
(* approximate deduplication algorithms (analyze.py).                      *)
(*                                                                         *)
(* Operon objects live in the heap `operons` (a sequence: the index is the *)
(* object's identity); lists of Operons are sequences of indices.          *)
(***************************************************************************)
EXTENDS Integers, Sequences, FiniteSets, TLC

VARIABLES
    operons,         \* heap of Operon objects, index = object identity
    input,           \* the list of Operons (indices) handed to the operation
    pc,              \* position of the running operation
    filterset,       \* _evaluate_operons: "None" or "FilterSet"
    ruleset,         \* _evaluate_operons: the rule policy
    consumed,        \* _evaluate_operons: Operons taken from the input so far
    results,         \* _evaluate_operons: Results yielded so far
    mode,            \* which deduplication runs: "exact" or "approximate"
    load_sequences,  \* group_similar_operons: the load_sequences flag
    bins,            \* clustered_operons: insertion-ordered <<key, members>>
    ci,              \* index of the cluster being processed
    oi,              \* index of the operon being processed in the cluster
    groups,          \* groups of the cluster being processed
    out,             \* truly_nonredundant_operons
    mem,             \* feature_region_sequence held in memory, per Operon
    loadCount,       \* number of load.load_sequence calls, per Operon
    reads,           \* Operons whose feature_region_sequence was compared
    history,         \* per finished cluster, its final list of groups
    pass,            \* 1: first run, 2: run on the first run's output
    firstOut,        \* output of the first run
    verdict,         \* result of _operons_are_approximately_equal
    collapsed        \* result of deduplicate_operons_approximate on a pair

vars == <<operons, input, pc, filterset, ruleset, consumed, results, mode, load_sequences,
          bins, ci, oi, groups, out, mem, loadCount, reads, history, pass,
          firstOut, verdict, collapsed>>

evalVars == <<filterset, ruleset, consumed, results>>
dedupVars == <<mode, load_sequences, bins, ci, oi, groups, out, mem, loadCount,
               reads, history, pass, firstOut>>
equalVars == <<verdict, collapsed>>

-----------------------------------------------------------------------------
(* Bounds *)

MaxCoord == 4
MaxEvalOperons == 3
MaxDedupOperons == 3
MaxReasons == 2

-----------------------------------------------------------------------------
(* Generic sequence helpers *)

Reverse(s) == [i \in 1..Len(s) |-> s[Len(s) + 1 - i]]

SetMin(S) == CHOOSE x \in S : \A y \in S : x <= y

SeqsUpTo(S, n) == UNION {[1..k -> S] : k \in 0..n}

NoSequence == <<"unloaded">>

-----------------------------------------------------------------------------
(* genes.py: Feature *)

CRISPR == "CRISPR array"
None == "None"

Feature(name, coordinates, e_val, sequence) ==
    [name |-> name, coordinates |-> coordinates, e_val |-> e_val,
     sequence |-> sequence, ignored_reasons |-> <<>>]

ignore(feature, reason) ==
    [feature EXCEPT !.ignored_reasons = Append(@, reason)]

start(feature) ==
    IF feature.coordinates[1] <= feature.coordinates[2]
    THEN feature.coordinates[1] ELSE feature.coordinates[2]

end(feature) ==
    IF feature.coordinates[1] >= feature.coordinates[2]
    THEN feature.coordinates[1] ELSE feature.coordinates[2]

(* genes.py: Operon *)

Operon(features, contig_sequence) ==
    [features |-> features, contig_sequence |-> contig_sequence]

all_features(operon) == operon.features

\* A variant of __iter__ that forgets to leave the ignored Features out.
iter_unfiltered(operon) == operon.features

IsGene(feature) == feature.e_val # None
all_genes(operon) == SelectSeq(operon.features, IsGene)

IsActive(feature) == feature.ignored_reasons = <<>>
iter(operon) == SelectSeq(operon.features, IsActive)

len(operon) == Len(iter(operon))

-----------------------------------------------------------------------------
(* analyze.py: sorting Features by start (Python's sorted is stable) *)

RECURSIVE InsertByStart(_, _)
InsertByStart(f, s) ==
    IF s = <<>> THEN <<f>>
    ELSE IF start(Head(s)) <= start(f)
         THEN <<Head(s)>> \o InsertByStart(f, Tail(s))
         ELSE <<f>> \o s

RECURSIVE sorted_by_start(_)
sorted_by_start(fs) ==
    IF fs = <<>> THEN <<>>
    ELSE InsertByStart(fs[Len(fs)], sorted_by_start(SubSeq(fs, 1, Len(fs) - 1)))

FeatureNames(fs) == [i \in 1..Len(fs) |-> fs[i].name]

get_sorted_feature_names(operon) == FeatureNames(sorted_by_start(iter(operon)))

-----------------------------------------------------------------------------
(* analyze.py: _operons_are_approximately_equal *)

NotCrispr(f) == f.name # CRISPR

Gaps(fs) == [i \in 1..(Len(fs) - 1) |-> start(fs[i + 1]) - end(fs[i])]

\* all([l.sequence == o.sequence for l, o in zip(ls, os)])
ZipSequencesEqual(ls, os) ==
    \A i \in 1..(IF Len(ls) <= Len(os) THEN Len(ls) ELSE Len(os)) :
        ls[i].sequence = os[i].sequence

\* A variant that keeps CRISPR arrays in the gap and sequence comparisons.
ApproximatelyEqualWithCrispr(leader, operon) ==
    LET leader_features == sorted_by_start(iter(leader))
        operon_features == sorted_by_start(iter(operon))
        leader_names == FeatureNames(leader_features)
        operon_names == FeatureNames(operon_features)
        leader_gaps == Gaps(leader_features)
        operon_gaps == Gaps(operon_features)
    IN  IF leader_names = operon_names /\ leader_gaps = operon_gaps
        THEN ZipSequencesEqual(leader_features, operon_features)
        ELSE IF /\ leader_names = Reverse(operon_names)
                /\ leader_gaps = Reverse(operon_gaps)
             THEN ZipSequencesEqual(leader_features, Reverse(operon_features))
             ELSE FALSE

operons_are_approximately_equal(leader, operon) ==
    LET lall == sorted_by_start(iter(leader))
        oall == sorted_by_start(iter(operon))
        leader_names == FeatureNames(lall)
        operon_names == FeatureNames(oall)
        leader_features == SelectSeq(lall, NotCrispr)
        operon_features == SelectSeq(oall, NotCrispr)
        leader_gaps == Gaps(leader_features)
        operon_gaps == Gaps(operon_features)
    IN  IF leader_names = operon_names /\ leader_gaps = operon_gaps
        THEN ZipSequencesEqual(leader_features, operon_features)
        ELSE IF /\ leader_names = Reverse(operon_names)
                /\ leader_gaps = Reverse(operon_gaps)
             THEN ZipSequencesEqual(leader_features, Reverse(operon_features))
             ELSE FALSE

-----------------------------------------------------------------------------
(* analyze.py: cluster_operons_by_feature_order *)

HasKey(bs, key) == \E b \in 1..Len(bs) : bs[b].key = key

KeyIndex(bs, key) == CHOOSE b \in 1..Len(bs) : bs[b].key = key

\* A variant that replaces the bucket's list instead of appending to it.
AppendToBinOverwrite(bs, key, id) ==
    IF HasKey(bs, key)
    THEN [bs EXCEPT ![KeyIndex(bs, key)].members = <<id>>]
    ELSE Append(bs, [key |-> key, members |-> <<id>>])

\* bins[key].append(operon) on a defaultdict(list)
AppendToBin(bs, key, id) ==
    IF HasKey(bs, key)
    THEN [bs EXCEPT ![KeyIndex(bs, key)].members = Append(@, id)]
    ELSE Append(bs, [key |-> key, members |-> <<id>>])

\* A variant that always files an Operon under its forward key.
FileOperonForwardOnly(bs, ops, id) ==
    AppendToBin(bs, get_sorted_feature_names(ops[id]), id)

\* A variant with the membership test inverted.
FileOperonInverted(bs, ops, id) ==
    LET feature_names == get_sorted_feature_names(ops[id])
        reverse_feature_names == Reverse(feature_names)
    IN  IF HasKey(bs, reverse_feature_names)
        THEN AppendToBin(bs, feature_names, id)
        ELSE AppendToBin(bs, reverse_feature_names, id)

\* one iteration of the loop of cluster_operons_by_feature_order
FileOperon(bs, ops, id) ==
    LET feature_names == get_sorted_feature_names(ops[id])
        reverse_feature_names == Reverse(feature_names)
    IN  IF ~HasKey(bs, reverse_feature_names)
        THEN AppendToBin(bs, feature_names, id)
        ELSE AppendToBin(bs, reverse_feature_names, id)

RECURSIVE ClusterPrefix(_, _, _)
ClusterPrefix(ops, ids, n) ==
    IF n = 0 THEN <<>>
    ELSE FileOperon(ClusterPrefix(ops, ids, n - 1), ops, ids[n])

cluster_operons_by_feature_order(ops, ids) == ClusterPrefix(ops, ids, Len(ids))

-----------------------------------------------------------------------------
(* Bio.Seq: reverse_complement of a nucleotide sequence *)

Complement(base) ==
    CASE base = "A" -> "T" [] base = "T" -> "A"
      [] base = "C" -> "G" [] base = "G" -> "C" [] OTHER -> base

reverse_complement(seq) == [i \in 1..Len(seq) |-> Complement(seq[Len(seq) + 1 - i])]

\* analyze.py lines 102-109: forward_seq == leader_seq or rc_seq == leader_seq
SequencesMatch(leader_seq, forward_seq) ==
    \/ forward_seq = leader_seq
    \/ reverse_complement(forward_seq) = leader_seq

-----------------------------------------------------------------------------
(* analyze.py: the grouping loop shared by both deduplications *)

RECURSIVE InsertBySize(_, _)
InsertBySize(g, s) ==
    IF s = <<>> THEN <<g>>
    ELSE IF Len(Head(s)) >= Len(g)
         THEN <<Head(s)>> \o InsertBySize(g, Tail(s))
         ELSE <<g>> \o s

\* A variant that leaves the groups in the order of their creation.
unsorted_groups(gs) == gs

\* sorted(groups, key=lambda x: -len(x)), a stable sort
RECURSIVE sorted_groups(_)
sorted_groups(gs) ==
    IF gs = <<>> THEN <<>>
    ELSE InsertBySize(gs[Len(gs)], sorted_groups(SubSeq(gs, 1, Len(gs) - 1)))

\* for group in groups: ... break / else: groups.append([operon]); then the sort.
\* `matches` are the groups whose leader equals the operon; the first one wins.
AddToGroups(gs, id, matches) ==
    sorted_groups(IF matches = {}
                  THEN Append(gs, <<id>>)
                  ELSE [gs EXCEPT ![SetMin(matches)] = Append(@, id)])

ApproximateMatches(gs, ops, id) ==
    {g \in 1..Len(gs) : operons_are_approximately_equal(ops[gs[g][1]], ops[id])}

ExactMatches(gs, seqs, id) ==
    {g \in 1..Len(gs) : SequencesMatch(seqs[gs[g][1]], seqs[id])}

Leaders(gs) == [g \in 1..Len(gs) |-> gs[g][1]]

-----------------------------------------------------------------------------
(* analyze.py: deduplicate_operons_approximate as a function of its input *)

RECURSIVE GroupPrefix(_, _, _)
GroupPrefix(ops, members, n) ==
    IF n = 0 THEN <<>>
    ELSE LET gs == GroupPrefix(ops, members, n - 1)
         IN  AddToGroups(gs, members[n], ApproximateMatches(gs, ops, members[n]))

ClusterRepresentatives(ops, members) ==
    IF Len(members) = 1 THEN <<members[1]>>
    ELSE Leaders(GroupPrefix(ops, members, Len(members)))

RECURSIVE DedupClusters(_, _, _)
DedupClusters(ops, bs, n) ==
    IF n = 0 THEN <<>>
    ELSE DedupClusters(ops, bs, n - 1) \o ClusterRepresentatives(ops, bs[n].members)

deduplicate_operons_approximate(ops, ids) ==
    LET clustered_operons == cluster_operons_by_feature_order(ops, ids)
    IN  DedupClusters(ops, clustered_operons, Len(clustered_operons))

-----------------------------------------------------------------------------
(* Inputs of the comparison of two Operons *)

GeneNames == {"cas1", "cas2"}
GeneSequences == {"MKV", "MLT"}
ArraySequences == {"GTTTTAGA", "GTTTTAGAGC"}
EVal == "1e-30"

\* genes are two positions wide; arrays are two or three positions wide
GeneCoordinates == {<<s, s + 1>> : s \in 0..(MaxCoord - 1)}
ArrayCoordinates ==
    {<<s, e>> \in (0..MaxCoord) \X (0..MaxCoord) : s < e /\ e - s <= 2}

Genes ==
    {Feature(n, c, EVal, q) : n \in GeneNames, c \in GeneCoordinates, q \in GeneSequences}
Arrays ==
    {Feature(CRISPR, c, None, "GTTTTAGA") : c \in ArrayCoordinates}

FeatureCounts == {1, 2, 3}

ComparedOperons ==
    {Operon(fs, <<"A">>) : fs \in UNION {[1..k -> Genes \cup Arrays] : k \in FeatureCounts}}

\* The same locus read from the opposite strand: Feature order reversed and
\* every coordinate mirrored within 0..MaxCoord.
Mirror(operon) ==
    Operon([i \in 1..Len(operon.features) |->
               LET f == operon.features[Len(operon.features) + 1 - i]
               IN  [f EXCEPT !.coordinates =
                        <<MaxCoord - f.coordinates[1], MaxCoord - f.coordinates[2]>>]],
           reverse_complement(operon.contig_sequence))

\* The same Operon with one CRISPR array of another extent.
ArrayVariants(operon) ==
    {[operon EXCEPT !.features[j].coordinates = c, !.features[j].sequence = q] :
        <<j, c, q>> \in {t \in (1..Len(operon.features)) \X ArrayCoordinates \X ArraySequences :
                            operon.features[t[1]].name = CRISPR}}

Candidates(operon) == {Mirror(operon)} \cup ArrayVariants(operon)

NoBins == <<>>
Unused == "unused"

DedupIdle ==
    /\ mode = Unused /\ load_sequences = FALSE /\ bins = NoBins /\ ci = 0 /\ oi = 0
    /\ groups = <<>> /\ out = <<>> /\ mem = <<>> /\ loadCount = <<>>
    /\ reads = {} /\ history = <<>> /\ pass = 0 /\ firstOut = <<>>

EvalIdle == filterset = None /\ ruleset = <<>> /\ consumed = 0 /\ results = <<>>

EqualIdle == verdict = FALSE /\ collapsed = <<>>

InitEqual ==
    /\ \E o \in ComparedOperons : \E c \in Candidates(o) : operons = <<o, c>>
    /\ input = <<1, 2>>
    /\ pc = "input"
    /\ EqualIdle /\ EvalIdle /\ DedupIdle

CompareOperons ==
    /\ pc = "input"
    /\ verdict' = operons_are_approximately_equal(operons[1], operons[2])
    /\ collapsed' = deduplicate_operons_approximate(operons, input)
    /\ pc' = "compared"
    /\ UNCHANGED <<operons, input, evalVars, dedupVars>>

NextEqual == CompareOperons

SpecEqual == InitEqual /\ [][NextEqual]_vars

-----------------------------------------------------------------------------
(* Claims about _operons_are_approximately_equal, under SpecEqual *)

SortedActive(operon) == sorted_by_start(iter(operon))
GeneGaps(operon) == Gaps(SelectSeq(SortedActive(operon), NotCrispr))
GeneSequencesOf(operon) ==
    LET gs == SelectSeq(SortedActive(operon), NotCrispr)
    IN  [i \in 1..Len(gs) |-> gs[i].sequence]

\* operons[2] is operons[1] seen from the opposite strand: name tuple and gap
\* tuple reversed, per-feature sequences matching pairwise in reverse
IsReverseCounterpart ==
    /\ operons[2] = Mirror(operons[1])
    /\ get_sorted_feature_names(operons[2]) = Reverse(get_sorted_feature_names(operons[1]))
    /\ GeneGaps(operons[2]) = Reverse(GeneGaps(operons[1]))
    /\ GeneSequencesOf(operons[2]) = Reverse(GeneSequencesOf(operons[1]))

\* C5: an Operon and its reverse-strand counterpart (name tuple and gap tuple
\* reversed, sequences matching pairwise in reverse) are judged approximately
\* equal and collapse to one representative under approximate deduplication.
C5_OrientationSymmetry ==
    (pc = "compared" /\ IsReverseCounterpart) => (verdict /\ Len(collapsed) = 1)

\* operons[2] is operons[1] except for the coordinates and/or sequence of
\* CRISPR arrays, at least one of which differs
DiffersOnlyInArrayExtent ==
    LET a == operons[1].features
        b == operons[2].features
    IN  /\ Len(a) = Len(b)
        /\ operons[1].contig_sequence = operons[2].contig_sequence
        /\ \A j \in 1..Len(a) :
              \/ a[j] = b[j]
              \/ /\ a[j].name = CRISPR /\ b[j].name = CRISPR
                 /\ a[j].e_val = b[j].e_val
                 /\ a[j].ignored_reasons = b[j].ignored_reasons
        /\ \E j \in 1..Len(a) : a[j] # b[j]

\* C9 as stated: two Operons that differ only in the extent of a CRISPR array
\* are judged approximately equal.
C9_ArrayExtentIgnored ==
    (pc = "compared" /\ DiffersOnlyInArrayExtent) => verdict

\* C9 amended: two Operons that differ only in the extent of a CRISPR array,
\* and whose start-sorted name tuples are equal, are judged approximately equal.
C9_ArrayExtentIgnoredSameOrder ==
    (/\ pc = "compared"
     /\ DiffersOnlyInArrayExtent
     /\ get_sorted_feature_names(operons[1]) = get_sorted_feature_names(operons[2]))
    => verdict

\* a pair with two genes and an array of another extent and sequence, in the
\* same start order, judged equal
C9_Witness ==
    /\ pc = "compared"
    /\ DiffersOnlyInArrayExtent
    /\ get_sorted_feature_names(operons[1]) = get_sorted_feature_names(operons[2])
    /\ Len(GeneGaps(operons[1])) = 1
    /\ \E j \in 1..Len(operons[1].features) :
          /\ operons[1].features[j].coordinates # operons[2].features[j].coordinates
          /\ operons[1].features[j].sequence # operons[2].features[j].sequence
    /\ verdict

-----------------------------------------------------------------------------
(* Inputs of the deduplications *)

\* An Operon of up to two Features: the first at 0..1, the second `gap` after
\* it; the Features at the positions in `ignored` were ignored by an earlier
\* filter.
Layout(names, gap, seqs, ignored, contig_sequence) ==
    Operon([i \in 1..Len(names) |->
               LET f == Feature(names[i],
                                IF i = 1 THEN <<0, 1>> ELSE <<1 + gap, 2 + gap>>,
                                IF names[i] = CRISPR THEN None ELSE EVal, seqs[i])
               IN  IF i \in ignored THEN ignore(f, "overlaps") ELSE f],
           contig_sequence)

RegionSequences == {<<"A", "C">>, <<"G", "T">>, <<"A", "A">>}

\* exact deduplication reads the names and the bounded-region sequence
ExactOperons ==
    {Layout(l[1], 1, <<"MKV", "MLT">>, l[2], q) :
        l \in {<<<<"cas1", "cas2">>, {}>>, <<<<"cas2", "cas1">>, {}>>,
               <<<<"cas1", "cas2">>, {2}>>},
        q \in RegionSequences}

\* approximate deduplication reads the names, the gaps and the gene sequences
ApproximateOperons ==
    {Layout(n, g, q, {}, <<"A">>) :
        n \in {<<"cas1", "cas2">>, <<"cas2", "cas1">>, <<"cas1", "cas1">>,
               <<"cas1", CRISPR>>},
        g \in {1, 2},
        q \in {<<"MKV", "MLT">>, <<"MLT", "MKV">>}}

EXACT == "exact"
APPROXIMATE == "approximate"

InitDedup ==
    /\ mode \in {EXACT, APPROXIMATE}
    /\ operons \in SeqsUpTo(IF mode = EXACT THEN ExactOperons ELSE ApproximateOperons,
                            MaxDedupOperons)
    /\ input = [i \in 1..Len(operons) |-> i]
    /\ load_sequences \in (IF mode = EXACT THEN BOOLEAN ELSE {FALSE})
    \* without load_sequences the caller has loaded the sequences already
    /\ mem = [i \in 1..Len(operons) |->
                 IF load_sequences THEN NoSequence ELSE operons[i].contig_sequence]
    /\ loadCount = [i \in 1..Len(operons) |-> 0]
    /\ pc = "start" /\ pass = 1
    /\ bins = NoBins /\ ci = 0 /\ oi = 0 /\ groups = <<>> /\ out = <<>>
    /\ reads = {} /\ history = <<>> /\ firstOut = <<>>
    /\ EvalIdle /\ EqualIdle

fixedVars == <<operons, evalVars, equalVars, mode, load_sequences, pass, firstOut>>

\* clustered_operons = cluster_operons_by_feature_order(operons)
\* truly_nonredundant_operons = []
Cluster ==
    /\ pc = "start"
    /\ bins' = cluster_operons_by_feature_order(operons, input)
    /\ out' = <<>>
    /\ ci' = 1
    /\ pc' = "clusters"
    /\ UNCHANGED <<fixedVars, input, oi, groups, mem, loadCount, reads, history>>

\* A variant that forgets to keep the only member of a cluster.
SingletonClusterDropped ==
    /\ pc = "clusters" /\ ci <= Len(bins)
    /\ Len(bins[ci].members) = 1
    /\ history' = Append(history, <<bins[ci].members>>)
    /\ ci' = ci + 1
    /\ UNCHANGED <<fixedVars, input, pc, bins, oi, groups, out, mem, loadCount, reads>>

\* if len(cloperons) == 1: truly_nonredundant_operons.append(cloperons[0]); continue
SingletonCluster ==
    /\ pc = "clusters" /\ ci <= Len(bins)
    /\ Len(bins[ci].members) = 1
    /\ out' = Append(out, bins[ci].members[1])
    /\ history' = Append(history, <<bins[ci].members>>)
    /\ ci' = ci + 1
    /\ UNCHANGED <<fixedVars, input, pc, bins, oi, groups, mem, loadCount, reads>>

\* groups = []
BeginCluster ==
    /\ pc = "clusters" /\ ci <= Len(bins)
    /\ Len(bins[ci].members) # 1
    /\ groups' = <<>>
    /\ oi' = 1
    /\ pc' = "operon"
    /\ UNCHANGED <<fixedVars, input, bins, ci, out, mem, loadCount, reads, history>>

Loads == mode = EXACT /\ load_sequences

\* A variant that loads a sequence only when there is a group to compare with.
LoadSequenceLazily ==
    /\ pc = "operon" /\ oi <= Len(bins[ci].members)
    /\ Loads
    /\ LET id == bins[ci].members[oi]
       IN  IF groups = <<>>
           THEN UNCHANGED <<mem, loadCount>>
           ELSE /\ mem' = [mem EXCEPT ![id] = operons[id].contig_sequence]
                /\ loadCount' = [loadCount EXCEPT ![id] = @ + 1]
    /\ pc' = "compare"
    /\ UNCHANGED <<fixedVars, input, bins, ci, oi, groups, out, reads, history>>

\* if load_sequences: load.load_sequence(operon)
LoadSequence ==
    /\ pc = "operon" /\ oi <= Len(bins[ci].members)
    /\ Loads
    /\ LET id == bins[ci].members[oi]
       IN  /\ mem' = [mem EXCEPT ![id] = operons[id].contig_sequence]
           /\ loadCount' = [loadCount EXCEPT ![id] = @ + 1]
    /\ pc' = "compare"
    /\ UNCHANGED <<fixedVars, input, bins, ci, oi, groups, out, reads, history>>

\* the comparison with the leaders, the append or the new group, and the sort
PlaceOperon ==
    /\ pc = "compare" \/ (pc = "operon" /\ ~Loads)
    /\ oi <= Len(bins[ci].members)
    /\ LET id == bins[ci].members[oi]
           matches == IF mode = EXACT
                      THEN ExactMatches(groups, mem, id)
                      ELSE ApproximateMatches(groups, operons, id)
           probed == IF matches = {} THEN Len(groups) ELSE SetMin(matches)
       IN  /\ groups' = AddToGroups(groups, id, matches)
           /\ reads' = IF mode = EXACT /\ groups # <<>>
                       THEN reads \cup {id} \cup {groups[g][1] : g \in 1..probed}
                       ELSE reads
    /\ oi' = oi + 1
    /\ pc' = "operon"
    /\ UNCHANGED <<fixedVars, input, bins, ci, out, mem, loadCount, history>>

\* for group in groups: truly_nonredundant_operons.append(group[0])
EmitCluster ==
    /\ pc = "operon" /\ oi > Len(bins[ci].members)
    /\ out' = out \o Leaders(groups)
    /\ history' = Append(history, groups)
    /\ ci' = ci + 1
    /\ pc' = "clusters"
    /\ UNCHANGED <<fixedVars, input, bins, oi, groups, mem, loadCount, reads>>

\* return truly_nonredundant_operons
Return ==
    /\ pc = "clusters" /\ ci > Len(bins)
    /\ pc' = "done"
    /\ UNCHANGED <<fixedVars, input, bins, ci, oi, groups, out, mem, loadCount, reads,
                   history>>

\* The caller hands the returned list to the same deduplication again.
Rerun ==
    /\ pc = "done" /\ pass = 1
    /\ firstOut' = out
    /\ input' = out
    /\ pass' = 2
    /\ pc' = "start"
    /\ bins' = NoBins /\ ci' = 0 /\ oi' = 0 /\ groups' = <<>> /\ out' = <<>>
    /\ reads' = {} /\ history' = <<>>
    /\ loadCount' = [i \in 1..Len(operons) |-> 0]
    /\ UNCHANGED <<operons, evalVars, equalVars, mode, load_sequences, mem>>

NextDedup ==
    \/ Cluster
    \/ SingletonCluster
    \/ BeginCluster
    \/ LoadSequence
    \/ PlaceOperon
    \/ EmitCluster
    \/ Return
    \/ Rerun

SpecDedup == InitDedup /\ [][NextDedup]_vars

-----------------------------------------------------------------------------
(* Claims about the clustering and the deduplications, under SpecDedup *)

Range(s) == {s[i] : i \in DOMAIN s}

PositionIn(s, x) == CHOOSE i \in DOMAIN s : s[i] = x

RECURSIVE Flatten(_, _)
Flatten(ss, n) == IF n = 0 THEN <<>> ELSE Flatten(ss, n - 1) \o ss[n]

Judged(i, j) == operons_are_approximately_equal(operons[i], operons[j])

\* C2: approximate deduplication returns inputs only, no two returned Operons
\* are judged approximately equal, and every input Operon is judged
\* approximately equal to exactly one returned Operon.
C2_ApproximateRepresentatives ==
    (mode = APPROXIMATE /\ pc = "done") =>
        /\ \A k \in DOMAIN out : out[k] \in Range(input)
        /\ \A j, k \in DOMAIN out : j # k => ~Judged(out[j], out[k])
        /\ \A i \in DOMAIN input :
              Cardinality({k \in DOMAIN out : Judged(out[k], input[i])}) = 1

\* three inputs, two of them in opposite orientations collapsed into one
C2_Witness ==
    /\ mode = APPROXIMATE /\ pc = "done" /\ pass = 1
    /\ Len(input) = 3 /\ Len(out) = 2
    /\ \E i, j \in DOMAIN input :
          /\ get_sorted_feature_names(operons[i]) # get_sorted_feature_names(operons[j])
          /\ Judged(i, j)

SameRegion(i, j) ==
    SequencesMatch(operons[i].contig_sequence, operons[j].contig_sequence)

\* C3: exact deduplication returns no two Operons whose bounded-region
\* sequences are identical (forward or reverse-complemented), and every input
\* Operon's sequence is identical to that of exactly one returned Operon.
C3_ExactRepresentatives ==
    (mode = EXACT /\ pc = "done") =>
        /\ \A j, k \in DOMAIN out : j # k => ~SameRegion(out[j], out[k])
        /\ \A i \in DOMAIN input :
              Cardinality({k \in DOMAIN out : SameRegion(out[k], input[i])}) = 1

\* C4: the buckets of the clustering partition the input: no bucket is empty
\* or holds a foreign Operon, and every input Operon is in exactly one bucket
\* exactly once.
C4_ClusterPartition ==
    (pc \in {"clusters", "operon", "compare", "done"}) =>
        /\ \A b \in DOMAIN bins :
              /\ Len(bins[b].members) >= 1
              /\ Range(bins[b].members) \subseteq Range(input)
        /\ \A i \in DOMAIN input :
              Cardinality({t \in (DOMAIN bins) \X (1..Len(input)) :
                              /\ t[2] <= Len(bins[t[1]].members)
                              /\ bins[t[1]].members[t[2]] = input[i]}) = 1

\* two buckets, one of them holding Operons of both orientations
C4_Witness ==
    /\ pc = "clusters" /\ Len(bins) = 2
    /\ \E b \in DOMAIN bins : \E i, j \in Range(bins[b].members) :
          get_sorted_feature_names(operons[i]) # get_sorted_feature_names(operons[j])

\* C6: deduplicating the output of a deduplication returns the same set of
\* Operons, with no further collapsing.
C6_Idempotent ==
    (pc = "done" /\ pass = 2) =>
        /\ Range(out) = Range(firstOut)
        /\ Len(out) = Len(firstOut)

\* the first run collapsed three inputs into two, the second run is over
C6_Witness ==
    /\ pc = "done" /\ pass = 2
    /\ Len(operons) = 3 /\ Len(firstOut) = 2

OneLeaderPerGroup ==
    /\ Len(history) = Len(bins)
    /\ out = Flatten([c \in DOMAIN history |-> Leaders(history[c])], Len(history))
    /\ \A c \in DOMAIN history :
          /\ \A k \in DOMAIN history[c] : history[c][k] # <<>>
          /\ \A m \in DOMAIN bins[c].members :
                Cardinality({t \in (DOMAIN history[c]) \X (DOMAIN bins[c].members) :
                                /\ t[2] <= Len(history[c][t[1]])
                                /\ history[c][t[1]][t[2]] = bins[c].members[m]}) = 1
          \* the representative is the first member inserted into its group
          /\ \A k \in DOMAIN history[c] : \A x \in Range(history[c][k]) :
                PositionIn(bins[c].members, history[c][k][1])
                    <= PositionIn(bins[c].members, x)

\* C7 as stated: one leader per group, the representatives of a cluster in
\* the order in which their groups were created, clusters in mapping order.
C7_CreationOrder ==
    (pc = "done") =>
        /\ OneLeaderPerGroup
        /\ \A c \in DOMAIN history : \A k, l \in DOMAIN history[c] :
              k < l => PositionIn(bins[c].members, history[c][k][1])
                           < PositionIn(bins[c].members, history[c][l][1])

\* C7 amended: one leader per group, the representatives of a cluster in
\* order of descending final group size, clusters in mapping order.
C7_SizeOrder ==
    (pc = "done") =>
        /\ OneLeaderPerGroup
        /\ \A c \in DOMAIN history : \A k, l \in DOMAIN history[c] :
              k < l => Len(history[c][k]) >= Len(history[c][l])

\* a cluster whose later-created group grew larger and is emitted first
C7_Witness ==
    /\ pc = "done"
    /\ \E c \in DOMAIN history :
          /\ Len(history[c]) = 2
          /\ Len(history[c][1]) = 2
          /\ PositionIn(bins[c].members, history[c][1][1])
                 > PositionIn(bins[c].members, history[c][2][1])

\* C10: with load_sequences the loader runs at most once per Operon and has
\* run for every Operon whose sequence a comparison has read; without it the
\* loader never runs.
C10_LoadOncePerOperon ==
    (mode = EXACT) =>
        IF load_sequences
        THEN /\ \A id \in DOMAIN loadCount : loadCount[id] <= 1
             /\ \A id \in reads : loadCount[id] >= 1
        ELSE \A id \in DOMAIN loadCount : loadCount[id] = 0

\* a finished run that loaded and compared some Operons and skipped the
\* member of a single-member cluster
C10_Witness ==
    /\ mode = EXACT /\ load_sequences /\ pc = "done"
    /\ reads # {}
    /\ \E id \in DOMAIN loadCount : loadCount[id] = 1 /\ id \in reads
    /\ \E id \in DOMAIN loadCount : loadCount[id] = 0

-----------------------------------------------------------------------------
(* genes.py: Feature.ignore called on the Features of an Operon *)

Reasons == {"overlaps", "low bit score"}

IgnoreFeatures ==
    {Feature("cas1", <<0, 1>>, EVal, "MKV"), Feature(CRISPR, <<2, 4>>, None, "GTTTTAGA")}

InitIgnore ==
    /\ \E k \in FeatureCounts : \E fs \in [1..k -> IgnoreFeatures] : operons = <<Operon(fs, <<"A">>)>>
    /\ input = <<1>>
    /\ pc = "ignoring"
    /\ EvalIdle /\ EqualIdle /\ DedupIdle

\* operon._features[j].ignore(reason)
Ignore(j, reason) ==
    /\ pc = "ignoring"
    /\ Len(operons[1].features[j].ignored_reasons) < MaxReasons
    /\ operons' = [operons EXCEPT ![1].features[j] = ignore(@, reason)]
    /\ UNCHANGED <<input, pc, evalVars, equalVars, dedupVars>>

NextIgnore ==
    \E j \in 1..Len(operons[1].features) : \E reason \in Reasons : Ignore(j, reason)

SpecIgnore == InitIgnore /\ [][NextIgnore]_vars

\* a Feature without the trace of ignore calls
Untagged(feature) == [feature EXCEPT !.ignored_reasons = <<>>]
UntaggedAll(fs) == [i \in 1..Len(fs) |-> Untagged(fs[i])]

EmptyReasonCount(operon) ==
    Cardinality({j \in 1..Len(operon.features) :
                    Len(operon.features[j].ignored_reasons) = 0})

IgnoreStep ==
    \A j \in 1..Len(operons[1].features) :
        (operons'[1].features[j] # operons[1].features[j]) =>
            /\ len(operons'[1]) = len(operons[1])
                   - (IF Len(operons[1].features[j].ignored_reasons) = 0 THEN 1 ELSE 0)
            /\ UntaggedAll(all_features(operons'[1])) = UntaggedAll(all_features(operons[1]))
            /\ UntaggedAll(all_genes(operons'[1])) = UntaggedAll(all_genes(operons[1]))

\* C8: len(operon) is the number of Features with empty ignored_reasons; an
\* ignore call lowers it by one if the Feature was active and leaves it
\* unchanged otherwise, and never changes all_features or all_genes.
C8_IgnoreCounts ==
    /\ [](len(operons[1]) = EmptyReasonCount(operons[1]))
    /\ [][IgnoreStep]_vars

\* one Feature ignored twice, one ignored once, one still active
C8_Witness ==
    /\ pc = "ignoring"
    /\ Len(operons[1].features) = 3
    /\ \E i, j, k \in 1..3 :
          /\ Len(operons[1].features[i].ignored_reasons) = 2
          /\ Len(operons[1].features[j].ignored_reasons) = 1
          /\ Len(operons[1].features[k].ignored_reasons) = 0
    /\ len(operons[1]) = 1

-----------------------------------------------------------------------------
(* rules.py: the rule policy and the filter policy, as the evaluation uses them *)

Require(name) == [kind |-> "require", name |-> name]
Exclude(name) == [kind |-> "exclude", name |-> name]

\* whether the active Features of the Operon satisfy the rule
RuleHolds(rule, operon) ==
    LET present == \E i \in 1..Len(iter(operon)) : iter(operon)[i].name = rule.name
    IN  IF rule.kind = "require" THEN present ELSE ~present

\* RuleSet.evaluate(operon): a Result, the Operon with the list of failing rules
RuleSetEvaluate(rules, id, operon) ==
    LET fails(rule) == ~RuleHolds(rule, operon)
    IN  [operon |-> id, failing |-> SelectSeq(rules, fails)]

is_passing(result) == result.failing = <<>>

\* FilterSet.evaluate(operon): calls ignore on the Features at `chosen`
FilterSetEvaluate(operon, chosen) ==
    [operon EXCEPT !.features =
        [j \in 1..Len(operon.features) |->
            IF j \in chosen THEN ignore(operon.features[j], "filtered")
            ELSE operon.features[j]]]

-----------------------------------------------------------------------------
(* analyze.py: _evaluate_operons, a generator *)

EvalFeatures ==
    {Feature("transposase", <<0, 1>>, EVal, "MKV"), Feature("cas3", <<3, 4>>, EVal, "MLT")}

EvalOperons ==
    {Operon(fs, <<"A">>) : fs \in UNION {[1..k -> EvalFeatures] : k \in {1, 2}}}

RuleSets ==
    {<<Require("transposase")>>, <<Require("transposase"), Exclude("cas3")>>}

InitEval ==
    /\ operons \in SeqsUpTo(EvalOperons, MaxEvalOperons)
    /\ input = [i \in 1..Len(operons) |-> i]
    /\ filterset \in {None, "FilterSet"}
    /\ ruleset \in RuleSets
    /\ consumed = 0
    /\ results = <<>>
    /\ pc = "running"
    /\ EqualIdle /\ DedupIdle

\* A variant that yields the Results of passing Operons only.
EvaluateNextPassingOnly ==
    /\ pc = "running" /\ consumed < Len(input)
    /\ LET id == input[consumed + 1]
       IN  \E chosen \in (IF filterset = None THEN {{}}
                          ELSE SUBSET (1..Len(operons[id].features))) :
              LET operon == FilterSetEvaluate(operons[id], chosen)
                  result == RuleSetEvaluate(ruleset, id, operon)
              IN  /\ operons' = [operons EXCEPT ![id] = operon]
                  /\ results' = IF is_passing(result) THEN Append(results, result)
                                ELSE results
    /\ consumed' = consumed + 1
    /\ UNCHANGED <<input, pc, filterset, ruleset, equalVars, dedupVars>>

\* one turn of the loop: the filter (if any), then the rules, then the yield
EvaluateNext ==
    /\ pc = "running" /\ consumed < Len(input)
    /\ LET id == input[consumed + 1]
       IN  \E chosen \in (IF filterset = None THEN {{}}
                          ELSE SUBSET (1..Len(operons[id].features))) :
              LET operon == FilterSetEvaluate(operons[id], chosen)
              IN  /\ operons' = [operons EXCEPT ![id] = operon]
                  /\ results' = Append(results, RuleSetEvaluate(ruleset, id, operon))
    /\ consumed' = consumed + 1
    /\ UNCHANGED <<input, pc, filterset, ruleset, equalVars, dedupVars>>

\* the input is exhausted: the generator ends
StopIteration ==
    /\ pc = "running" /\ consumed = Len(input)
    /\ pc' = "exhausted"
    /\ UNCHANGED <<operons, input, evalVars, equalVars, dedupVars>>

NextEval == EvaluateNext \/ StopIteration

SpecEval == InitEval /\ [][NextEval]_vars

\* C1: _evaluate_operons yields one Result per Operon taken from the input, in
\* input order: the i-th Result is the rule policy's Result for the i-th
\* Operon, passing or failing, and at the end every input Operon has one.
C1_OneResultPerOperon ==
    (pc \in {"running", "exhausted"}) =>
        /\ Len(results) = consumed
        /\ \A i \in DOMAIN results :
              results[i] = RuleSetEvaluate(ruleset, input[i], operons[input[i]])
        /\ pc = "exhausted" => Len(results) = Len(input)

\* a finished run over three Operons, with a filter that ignored a Feature,
\* that yielded passing and failing Results
C1_Witness ==
    /\ pc = "exhausted" /\ Len(input) = 3 /\ Len(results) = 3
    /\ filterset # None
    /\ \E i \in DOMAIN operons : len(operons[i]) < Len(operons[i].features)
    /\ \E i, j \in DOMAIN results : is_passing(results[i]) /\ ~is_passing(results[j])

-----------------------------------------------------------------------------
(* Claim about the keys of the clustering, under SpecDedup *)

NamesOf(id) == get_sorted_feature_names(operons[id])

BucketOf(id) == CHOOSE b \in DOMAIN bins : \E k \in DOMAIN bins[b].members : bins[b].members[k] = id

\* C11: an Operon is filed under its reversed key when that key is already in
\* the map and under its forward key otherwise; so, whatever the processing
\* order, two Operons share a bucket exactly when their start-sorted name
\* tuples are equal or reverses of each other, and the map never holds both a
\* key and its distinct reverse.
C11_FirstSeenKeyWins ==
    \* in the state cluster_operons_by_feature_order returns to its caller
    \* (the map is not written again)
    (pc = "clusters" /\ ci = 1) =>
        LET names == [n \in DOMAIN input |-> NamesOf(input[n])]
            reversed == [n \in DOMAIN input |-> Reverse(names[n])]
            bucket == [n \in DOMAIN input |-> BucketOf(input[n])]
            \* the keys in the map when the n-th Operon of the input is filed:
            \* those of the buckets the Operons before it were filed in
            KeysBefore(n) == {bins[bucket[m]].key : m \in 1..(n - 1)}
        IN  /\ \A n \in DOMAIN input :
                  bins[bucket[n]].key =
                      IF reversed[n] \in KeysBefore(n) THEN reversed[n] ELSE names[n]
            /\ \A m, n \in DOMAIN input :
                  (bucket[m] = bucket[n]) <=>
                      (names[m] = names[n] \/ names[m] = reversed[n])
            /\ \A a, b \in DOMAIN bins :
                  a # b => (bins[a].key # bins[b].key /\ bins[a].key # Reverse(bins[b].key))

\* two buckets, one named by the orientation (cas2, cas1) that came first and
\* holding an Operon whose own names read (cas1, cas2)
C11_Witness ==
    /\ pc = "clusters" /\ Len(bins) = 2
    /\ \E b \in DOMAIN bins :
          /\ bins[b].key = <<"cas2", "cas1">>
          /\ \E id \in Range(bins[b].members) : NamesOf(id) = <<"cas1", "cas2">>

====
